---- MODULE Spec2Model ----
(***************************************************************************)
(* Model of net-monitor/monitor.py: the monitoring loop of main(), the     *)
(* status logic (classify_status, flap damping, transition detection,      *)
(* per-host notification cooldown) and the files it writes.                *)
(*                                                                         *)
(* Conventions.  Python None is the empty tuple and a present value v is   *)
(* <<v>>.  A Python str that the code strips is a tuple of one-character   *)
(* strings, so that str.strip() is computed.  Timestamps are whole         *)
(* seconds of one clock: iso_now() and time.time() both read it.  A JSON   *)
(* file is held as the value json.load() returns for it.                   *)
(***************************************************************************)
EXTENDS Integers, Sequences, FiniteSets, TLC

\* ------------------------------ bounds ---------------------------------
MaxProbes == 3        \* pings executed in one behaviour
MaxRestarts == 1      \* times the process is started again after an interrupt
MaxLatency == 5       \* largest latency given to classify_status
MaxDegraded == 4      \* largest threshold given to classify_status

\* ----------------------------- constants -------------------------------
StartTime == 1700000000
FailedPingSeconds == 2
DefaultFailThreshold == 2
FailThresholdLo == 1
FailThresholdHi == 20
IntervalLo == 1
IntervalHi == 3600
DefaultInterval == 3
DegradedLo == 1
DegradedHi == 20000
DefaultDegraded == 120
CooldownLo == 5
CooldownHi == 3600
DefaultCooldown == 60

None == <<>>
Some(x) == <<x>>

\* ------------------------------ helpers --------------------------------
Max(a, b) == IF a >= b THEN a ELSE b
Min(a, b) == IF a <= b THEN a ELSE b

\* clamp_int: int(x) raises on None, and the default is returned.
clamp_int(x, lo, hi, default) ==
    IF x = None THEN default ELSE Max(lo, Min(hi, x[1]))

RECURSIVE lstrip(_)
lstrip(s) == IF s # <<>> /\ Head(s) = " " THEN lstrip(Tail(s)) ELSE s

RECURSIVE rstrip(_)
rstrip(s) ==
    IF s # <<>> /\ s[Len(s)] = " " THEN rstrip(SubSeq(s, 1, Len(s) - 1)) ELSE s

strip(s) == rstrip(lstrip(s))

\* Decimal digits and the value of a numeral.
DigitValue ==
    [c \in {"0", "1", "2", "3", "4", "5", "6", "7", "8", "9"} |->
        CASE c = "0" -> 0 [] c = "1" -> 1 [] c = "2" -> 2 [] c = "3" -> 3
          [] c = "4" -> 4 [] c = "5" -> 5 [] c = "6" -> 6 [] c = "7" -> 7
          [] c = "8" -> 8 [] c = "9" -> 9]

IsNumeral(s) == s # <<>> /\ \A i \in DOMAIN s : s[i] \in DOMAIN DigitValue

RECURSIVE NumeralValue(_)
NumeralValue(s) ==
    IF s = <<>> THEN 0
    ELSE 10 * NumeralValue(SubSeq(s, 1, Len(s) - 1)) + DigitValue[s[Len(s)]]

\* ------------------------------ ping -----------------------------------
\* output.lower() (line 141), on the letters that occur in the word "time"
\* and in "ms"
LowerChar(c) ==
    CASE c = "T" -> "t" [] c = "I" -> "i" [] c = "M" -> "m" [] c = "E" -> "e"
      [] c = "S" -> "s" [] OTHER -> c
Lower(s) == [i \in DOMAIN s |-> LowerChar(s[i])]

\* p in s
Contains(s, p) ==
    \E i \in 1 .. (Len(s) - Len(p) + 1) : SubSeq(s, i, i + Len(p) - 1) = p

\* s.find(p), counted from 1; 0 when p does not occur
Find(s, p) ==
    IF Contains(s, p)
    THEN CHOOSE i \in 1 .. (Len(s) - Len(p) + 1) :
           /\ SubSeq(s, i, i + Len(p) - 1) = p
           /\ \A j \in 1 .. (i - 1) : SubSeq(s, j, j + Len(p) - 1) # p
    ELSE 0

\* lines 153-159, 169-175: characters before the first digit or dot are
\* skipped, then digits and dots are collected up to the next other character
RECURSIVE ScanNumber(_, _)
ScanNumber(tail, num) ==
    IF tail = <<>> THEN num
    ELSE IF Head(tail) \in DOMAIN DigitValue \/ Head(tail) = "."
         THEN ScanNumber(Tail(tail), Append(num, Head(tail)))
         ELSE IF num # <<>> THEN num ELSE ScanNumber(Tail(tail), num)

\* lines 160-163: float(num) if num else None, None when float raises. The
\* value is kept in whole milliseconds (the digits before the dot), which
\* compares with an integer threshold as the float does.
ParseFloat(num) ==
    LET dots == {i \in DOMAIN num : num[i] = "."}
        whole == IF dots = {} THEN num
                 ELSE SubSeq(num, 1, (CHOOSE i \in dots : TRUE) - 1)
    IN  IF num = <<>> \/ Cardinality(dots) > 1 \/ Len(num) = Cardinality(dots)
        THEN None
        ELSE Some(NumeralValue(whole))

\* parse_latency_ms, lines 135-181
parse_latency_ms(output) ==
    LET s == Lower(output)
        eq == Find(s, <<"t", "i", "m", "e", "=">>)
        colon == Find(s, <<"t", "i", "m", "e", ":">>)
    IN  IF Contains(s, <<"t", "i", "m", "e", "<">>) /\ Contains(s, <<"m", "s">>) THEN Some(1)
        ELSE IF eq # 0 THEN ParseFloat(ScanNumber(SubSeq(s, eq + 5, Len(s)), <<>>))
        ELSE IF colon # 0
             THEN ParseFloat(ScanNumber(SubSeq(s, colon + 5, Len(s)), <<>>))
        ELSE None

\* What subprocess.run does at line 121: the command runs to an exit status
\* with its output, or an exception is raised.
Exit(returncode, out) == [kind |-> "exit", returncode |-> returncode, out |-> out]
Raised(kind) == [kind |-> kind, returncode |-> 0, out |-> <<>>]

\* ping, lines 118-133: (ok, latency_ms)
ping(r) ==
    IF r.kind = "exit"
    THEN [ok |-> r.returncode = 0, latency |-> parse_latency_ms(r.out)]
    ELSE [ok |-> FALSE, latency |-> None]

\* ---------------------------- status logic -----------------------------
\* Variant: the boundary is exclusive.
classify_status_Exclusive(ok_, latency_ms, degraded) ==
    IF ~ok_ THEN "DOWN"
    ELSE IF latency_ms = None THEN "UP"
    ELSE IF latency_ms[1] > degraded THEN "DEGRADED" ELSE "UP"

classify_status(ok_, latency_ms, degraded) ==
    IF ~ok_ THEN "DOWN"
    ELSE IF latency_ms = None THEN "UP"
    ELSE IF latency_ms[1] >= degraded THEN "DEGRADED" ELSE "UP"

RECURSIVE normalize_targets(_)
normalize_targets(ts) ==
    IF ts = <<>> THEN <<>>
    ELSE LET t == Head(ts)
             rest == normalize_targets(Tail(ts))
         IN  IF ~t.isdict THEN rest
             ELSE LET host == strip(t.host)
                      name == IF strip(t.name) # <<>> THEN strip(t.name)
                              ELSE strip(t.host)
                  IN  IF host = <<>> THEN rest
                      ELSE <<[name |-> name, host |-> host]>> \o rest

\* ------------------------------ inputs ---------------------------------
RawTarget(n, h) == [isdict |-> TRUE, name |-> n, host |-> h]
NotADict == [isdict |-> FALSE, name |-> <<>>, host |-> <<>>]

RawTargetLists ==
    { << RawTarget(<<>>, <<"a">>) >>,
      << RawTarget(<<"n">>, <<"a">>), RawTarget(<<" ">>, <<"b", " ">>) >>,
      << RawTarget(<<"x">>, <<" ", "a">>), NotADict,
         RawTarget(<<"y">>, <<" ">>), RawTarget(<<"z">>, <<"a">>) >> }

RawFailThresholds == { None, Some(0), Some(3) }
RawIntervals == { None }
RawCooldowns == { Some(0) }
RawDegraded == { None }
RawTelegram ==
    { [enabled |-> TRUE,  bot_token |-> <<"t">>, chat_id |-> <<"c">>],
      [enabled |-> FALSE, bot_token |-> <<"t">>, chat_id |-> <<"c">>],
      [enabled |-> TRUE,  bot_token |-> <<" ">>, chat_id |-> <<"c">>] }

\* Runs of the ping command: a reply after 120 ms; a reply whose output
\* shows no time; no reply; a host that does not resolve, named in the
\* error message ("ping: time=120: Name or service not known", exit
\* status 2, for the configured host "time=120"); no end within the hard
\* timeout.
ProcessOutcomes ==
    { Exit(0, <<"t", "i", "m", "e", "=", "1", "2", "0", " ", "m", "s">>),
      Exit(0, <<>>),
      Exit(1, <<>>),
      Exit(2, <<"p", "i", "n", "g", ":", " ", "t", "i", "m", "e", "=", "1", "2", "0", ":", " ", "u", "n", "k", "n", "o", "w", "n">>),
      Raised("timeout") }

\* Further runs, for ping and parse_latency_ms alone.
MoreOutcomes ==
    { Exit(0, <<"T", "I", "M", "E", "<", "1", "M", "S">>),
      Exit(0, <<"t", "i", "m", "e", "=", "2", "3", ".", "4", " ", "m", "s">>),
      Exit(0, <<"t", "i", "m", "e", "=", " ", "x", "7", "m", "s">>),
      Exit(0, <<"t", "i", "m", "e", ":", "9", "m", "s">>),
      Exit(0, <<"t", "i", "m", "e", "=", "1", ".", "2", ".", "3">>),
      Exit(0, <<"t", "i", "m", "e", "=", ".">>),
      Exit(0, <<"t", "i", "m", "e", "=", "m", "s">>),
      Exit(1, <<"t", "i", "m", "e", "<", "1", " ", "s">>),
      Raised("notfound"),
      Raised("error") }

\* line 264: what ping returns to the loop
PingResults == { ping(r) : r \in ProcessOutcomes }

\* A ping that gets no reply runs into the hard timeout of line 120 (with
\* the default timeout_ms, 2 whole seconds); a reply arrives within the second.
PingSeconds(ok_) == IF ok_ THEN 0 ELSE FailedPingSeconds

\* ------------------------------- state ---------------------------------
VARIABLES
    targets, fail_threshold, degraded_ms, interval,
    tg_enabled, tg_token, tg_chat, tg_cooldown,
    pc, state, now_iso, snapshot_by_host, idx,
    prev_status, failures, last_alert_ts, ok, latency, last_seen,
    effective_status, current_status, res,
    status_file, state_file, status_tmp, state_tmp, history, alerts,
    clock, sent, pings, probes, restarts, cycles

config == <<targets, fail_threshold, degraded_ms, interval,
            tg_enabled, tg_token, tg_chat, tg_cooldown>>
locals == <<prev_status, failures, last_alert_ts, ok, latency, last_seen,
            effective_status, current_status>>
files == <<status_file, state_file, status_tmp, state_tmp, history, alerts>>
vars == <<res, config, pc, state, now_iso, snapshot_by_host, idx, locals, files,
          clock, sent, pings, probes, restarts, cycles>>

EmptyDict == <<>>

NoLocals ==
    /\ prev_status' = "UNKNOWN"
    /\ failures' = 0
    /\ last_alert_ts' = 0
    /\ ok' = FALSE
    /\ latency' = None
    /\ last_seen' = None
    /\ effective_status' = "UNKNOWN"
    /\ current_status' = "UNKNOWN"

\* Variant: the file is not read, every start is a first start.
load_json_Default(file, default) == default

\* The content of a file that open(..., "w") has truncated and json.dump has
\* not finished writing (lines 70-71): not a JSON document.
Partial == <<EmptyDict, EmptyDict>>

\* A file is None (missing), Some(document) or Partial.
IsComplete(file) == Len(file) = 1

\* load_json(STATE_PATH, {}): a missing file and one that does not parse
\* raise inside the try and give the default.
load_json(file, default) == IF IsComplete(file) THEN file[1] ELSE default

\* lines 211-244 on a data directory whose state.json is file; a
\* configuration without targets ends the process at line 235 and is left out
Start(file) ==
    /\ \E rt \in RawTargetLists : targets = normalize_targets(rt)
    /\ targets # <<>>
    /\ \E x \in RawFailThresholds :
         fail_threshold = clamp_int(x, FailThresholdLo, FailThresholdHi,
                                    DefaultFailThreshold)
    /\ \E x \in RawDegraded :
         degraded_ms = clamp_int(x, DegradedLo, DegradedHi, DefaultDegraded)
    /\ \E x \in RawIntervals :
         interval = clamp_int(x, IntervalLo, IntervalHi, DefaultInterval)
    /\ \E tg \in RawTelegram :
         /\ tg_enabled = tg.enabled
         /\ tg_token = strip(tg.bot_token)
         /\ tg_chat = strip(tg.chat_id)
    /\ \E x \in RawCooldowns :
         tg_cooldown = clamp_int(x, CooldownLo, CooldownHi, DefaultCooldown)
    /\ status_file = None /\ state_file = file
    /\ status_tmp = None /\ state_tmp = None
    /\ history = <<>> /\ alerts = <<>>
    /\ state = load_json(state_file, EmptyDict)
    /\ pc = "loop"
    /\ now_iso = 0 /\ snapshot_by_host = EmptyDict /\ idx = 0
    /\ prev_status = "UNKNOWN" /\ failures = 0 /\ last_alert_ts = 0
    /\ ok = FALSE /\ latency = None /\ last_seen = None
    /\ effective_status = "UNKNOWN" /\ current_status = "UNKNOWN"
    /\ res = None
    /\ clock = StartTime
    /\ sent = <<>> /\ pings = <<>>
    /\ probes = 0 /\ restarts = 0 /\ cycles = 0

\* The first start, on an empty data directory.
Init == Start(None)

\* --------------------------- the main loop -----------------------------
\* lines 248-250
CycleStart ==
    /\ pc = "loop"
    /\ now_iso' = clock
    /\ snapshot_by_host' = EmptyDict
    /\ idx' = 1
    /\ pc' = "probe"
    /\ UNCHANGED <<res, config, state, locals, files, clock, sent, pings, probes,
                   restarts, cycles>>

\* A stored entry is a record. A member whose JSON value has the type the
\* program writes is the field of that name; a member written by someone
\* else with another type is the field name_str (a string where a number is
\* expected) or name_num (a number where a string is expected). Strings
\* that are converted are tuples of characters.
\* int(s or 0), float(s or 0) of a string s raise ValueError unless s is
\* empty or a numeral (lines 261-262)
ConversionRaises(s) == s # <<>> /\ ~IsNumeral(s)
Converted(s) == IF s = <<>> THEN 0 ELSE NumeralValue(s)

\* lines 256-258: state.get(host, {}); an entry that is not an object
\* counts as {}
Prev(st, host) == IF host \in DOMAIN st THEN st[host] ELSE EmptyDict

\* lines 261-262 raise ValueError, which nothing catches (line 329 catches
\* KeyboardInterrupt only)
PrevRaises(st, host) ==
    LET prev == Prev(st, host)
    IN  \/ "failures_str" \in DOMAIN prev /\ ConversionRaises(prev.failures_str)
        \/ "last_alert_ts_str" \in DOMAIN prev
             /\ ConversionRaises(prev.last_alert_ts_str)

\* line 260: str(prev.get("status", "UNKNOWN"))
PrevStatus(st, host) ==
    LET prev == Prev(st, host)
    IN  IF "status" \in DOMAIN prev THEN prev.status
        ELSE IF "status_num" \in DOMAIN prev THEN ToString(prev.status_num)
        ELSE "UNKNOWN"

\* line 261: int(prev.get("failures", 0) or 0)
PrevFailures(st, host) ==
    LET prev == Prev(st, host)
    IN  IF "failures" \in DOMAIN prev THEN prev.failures
        ELSE IF "failures_str" \in DOMAIN prev THEN Converted(prev.failures_str)
        ELSE 0

\* line 262: float(prev.get("last_alert_ts", 0) or 0)
PrevLastAlert(st, host) ==
    LET prev == Prev(st, host)
    IN  IF "last_alert_ts" \in DOMAIN prev THEN prev.last_alert_ts
        ELSE IF "last_alert_ts_str" \in DOMAIN prev
             THEN Converted(prev.last_alert_ts_str)
        ELSE 0

\* line 273: prev.get("last_seen", None)
PrevLastSeen(st, host) ==
    LET prev == Prev(st, host)
    IN  IF "last_seen" \in DOMAIN prev THEN prev.last_seen ELSE None

\* Variant: the counter is not reset by a reachable sample.
NextFailures_NoReset(ok_, f) == IF ok_ THEN f ELSE f + 1

\* lines 267-273
NextFailures(ok_, f) == IF ok_ THEN 0 ELSE f + 1
NextLastSeen(ok_, now, prevSeen) == IF ok_ THEN Some(now) ELSE prevSeen

\* Variant: no flap damping, the raw classification is reported.
EffectiveStatus_NoDamping(current, f, threshold) == current

\* Variant: DOWN is reported one failure late.
EffectiveStatus_Late(current, f, threshold) ==
    IF current = "DOWN" /\ f <= threshold THEN "DEGRADED" ELSE current

\* lines 277-280
EffectiveStatus(current, f, threshold) ==
    IF current = "DOWN" /\ f < threshold THEN "DEGRADED" ELSE current

\* Variant: a first observation counts as a status change.
Transition_FromUnknown(eff, prev) == eff # prev

\* line 283
Transition(eff, prev) == eff # prev /\ prev # "UNKNOWN"

\* Variant: the cooldown must be strictly exceeded.
NotifyDue_Strict(enabled, token, chat, now_ts, last, cooldown) ==
    enabled /\ token # <<>> /\ chat # <<>> /\ (now_ts - last) > cooldown

\* line 295
NotifyDue(enabled, token, chat, now_ts, last, cooldown) ==
    enabled /\ token # <<>> /\ chat # <<>> /\ (now_ts - last) >= cooldown

\* Variant: the two statuses of the record are exchanged.
AlertObj_Swapped(now, t, prev, eff) ==
    [ts |-> now, name |-> t.name, host |-> t.host, from |-> eff, to |-> prev]

\* lines 284-290
AlertObj(now, t, prev, eff) ==
    [ts |-> now, name |-> t.name, host |-> t.host, from |-> prev, to |-> eff]

\* Variant: line 298 moved out of the condition of line 295.
NextLastAlert_Always(due, now_ts, last) == now_ts

\* line 298, under the condition of line 295
NextLastAlert(due, now_ts, last) == IF due THEN now_ts ELSE last

\* telegram_send(tg_token, tg_chat, msg): the message that leaves, and when
Message(t, now_ts, prev, eff) ==
    [host |-> t.host, name |-> t.name, ts |-> now_ts, from |-> prev, to |-> eff]

\* lines 252-280: one target is probed and its new status computed
Probe ==
    /\ pc = "probe"
    /\ probes < MaxProbes
    /\ ~PrevRaises(state, targets[idx].host)
    /\ \E r \in PingResults :
         LET host == targets[idx].host
             f == NextFailures(r.ok, PrevFailures(state, host))
         IN  /\ prev_status' = PrevStatus(state, host)
             /\ last_alert_ts' = PrevLastAlert(state, host)
             /\ ok' = r.ok
             /\ latency' = r.latency
             /\ failures' = f
             /\ last_seen' = NextLastSeen(r.ok, now_iso, PrevLastSeen(state, host))
             /\ current_status' = classify_status(r.ok, r.latency, degraded_ms)
             /\ effective_status' =
                  EffectiveStatus(classify_status(r.ok, r.latency, degraded_ms),
                                  f, fail_threshold)
             /\ pings' = Append(pings, [host |-> host, ok |-> r.ok])
             /\ clock' = clock + PingSeconds(r.ok)
    /\ probes' = probes + 1
    /\ pc' = "alert"
    /\ UNCHANGED <<res, config, state, now_iso, snapshot_by_host, idx, files, sent,
                   restarts, cycles>>

\* lines 282-291
AppendAlert ==
    /\ pc = "alert"
    /\ IF Transition(effective_status, prev_status)
       THEN /\ alerts' = Append(alerts, AlertObj(now_iso, targets[idx],
                                                  prev_status, effective_status))
            /\ pc' = "notify"
       ELSE /\ alerts' = alerts
            /\ pc' = "record"
    /\ UNCHANGED <<res, config, state, now_iso, snapshot_by_host, idx, locals,
                   status_file, state_file, status_tmp, state_tmp, history,
                   clock, sent, pings, probes, restarts, cycles>>

\* lines 293-298
Notify ==
    /\ pc = "notify"
    /\ LET now_ts == clock
           due == NotifyDue(tg_enabled, tg_token, tg_chat, now_ts,
                            last_alert_ts, tg_cooldown)
       IN  /\ sent' = IF due
                      THEN Append(sent, Message(targets[idx], now_ts,
                                                prev_status, effective_status))
                      ELSE sent
           /\ last_alert_ts' = NextLastAlert(due, now_ts, last_alert_ts)
    /\ pc' = "record"
    /\ UNCHANGED <<res, config, state, now_iso, snapshot_by_host, idx,
                   prev_status, failures, ok, latency, last_seen,
                   effective_status, current_status, files, clock, pings,
                   probes, restarts, cycles>>

\* line 306
ItemLastSeen(ok_, seen) == IF ok_ THEN seen ELSE (IF seen # None THEN seen ELSE None)

\* lines 300-308
Item(t, eff, lat, f, seen, now) ==
    [name |-> t.name, host |-> t.host, status |-> eff, last_latency_ms |-> lat,
     failures |-> f, last_seen |-> seen, updated_at |-> now]

\* Variant: the state store does not take over last_seen.
StateEntry_NoSeen(eff, f, seen, lastAlert) ==
    [status |-> eff, failures |-> f, last_seen |-> None, last_alert_ts |-> lastAlert]

\* lines 316-321
StateEntry(eff, f, seen, lastAlert) ==
    [status |-> eff, failures |-> f, last_seen |-> seen, last_alert_ts |-> lastAlert]

\* Variant: the snapshot is keyed by the display name.
SnapshotKey_Name(t) == t.name

\* line 310: the snapshot is keyed by host
SnapshotKey(t) == t.host

\* d[k] = v
DictSet(d, k, v) == (k :> v) @@ d

\* lines 300-321
Record ==
    /\ pc = "record"
    /\ LET t == targets[idx]
           item == Item(t, effective_status, latency, failures,
                        ItemLastSeen(ok, last_seen), now_iso)
       IN  /\ snapshot_by_host' = DictSet(snapshot_by_host, SnapshotKey(t), item)
           /\ history' = Append(history, item)
           /\ state' = DictSet(state, t.host,
                               StateEntry(effective_status, failures,
                                          item.last_seen, last_alert_ts))
    /\ NoLocals
    /\ idx' = idx + 1
    /\ pc' = IF idx + 1 > Len(targets) THEN "status_tmp" ELSE "probe"
    /\ UNCHANGED <<res, config, now_iso, status_file, state_file, status_tmp,
                   state_tmp, alerts, clock, sent, pings, probes, restarts,
                   cycles>>

\* Variant: the snapshot is written in place, without a temporary file.
OpenStatusTmp_InPlace ==
    /\ pc = "status_tmp"
    /\ status_file' = Partial
    /\ pc' = "status_dump"
    /\ UNCHANGED <<res, config, state, now_iso, snapshot_by_host, idx, locals,
                   status_tmp, state_file, state_tmp, history, alerts,
                   clock, sent, pings, probes, restarts, cycles>>

\* atomic_write_json(STATUS_PATH, snapshot_by_host), lines 69-70: the
\* temporary file is created or truncated
OpenStatusTmp ==
    /\ pc = "status_tmp"
    /\ status_tmp' = Partial
    /\ pc' = "status_dump"
    /\ UNCHANGED <<res, config, state, now_iso, snapshot_by_host, idx, locals,
                   status_file, state_file, state_tmp, history, alerts,
                   clock, sent, pings, probes, restarts, cycles>>

\* atomic_write_json(STATUS_PATH, snapshot_by_host), line 71 and the close
WriteStatusTmp ==
    /\ pc = "status_dump"
    /\ status_tmp' = Some(snapshot_by_host)
    /\ pc' = "status_replace"
    /\ UNCHANGED <<res, config, state, now_iso, snapshot_by_host, idx, locals,
                   status_file, state_file, state_tmp, history, alerts,
                   clock, sent, pings, probes, restarts, cycles>>

\* atomic_write_json(STATUS_PATH, snapshot_by_host), line 72
ReplaceStatus ==
    /\ pc = "status_replace"
    /\ status_file' = status_tmp
    /\ status_tmp' = None
    /\ pc' = "state_tmp"
    /\ UNCHANGED <<res, config, state, now_iso, snapshot_by_host, idx, locals,
                   state_file, state_tmp, history, alerts,
                   clock, sent, pings, probes, restarts, cycles>>

\* atomic_write_json(STATE_PATH, state), lines 69-70
OpenStateTmp ==
    /\ pc = "state_tmp"
    /\ state_tmp' = Partial
    /\ pc' = "state_dump"
    /\ UNCHANGED <<res, config, state, now_iso, snapshot_by_host, idx, locals,
                   status_file, state_file, status_tmp, history, alerts,
                   clock, sent, pings, probes, restarts, cycles>>

\* atomic_write_json(STATE_PATH, state), line 71 and the close
WriteStateTmp ==
    /\ pc = "state_dump"
    /\ state_tmp' = Some(state)
    /\ pc' = "state_replace"
    /\ UNCHANGED <<res, config, state, now_iso, snapshot_by_host, idx, locals,
                   status_file, state_file, status_tmp, history, alerts,
                   clock, sent, pings, probes, restarts, cycles>>

\* atomic_write_json(STATE_PATH, state), line 72
ReplaceState ==
    /\ pc = "state_replace"
    /\ state_file' = state_tmp
    /\ state_tmp' = None
    /\ cycles' = cycles + 1
    /\ pc' = "sleep"
    /\ UNCHANGED <<res, config, state, now_iso, snapshot_by_host, idx, locals,
                   status_file, status_tmp, history, alerts,
                   clock, sent, pings, probes, restarts>>

\* line 327
Sleep ==
    /\ pc = "sleep"
    /\ clock' = clock + interval
    /\ pc' = "loop"
    /\ UNCHANGED <<res, config, state, now_iso, snapshot_by_host, idx, locals,
                   files, sent, pings, probes, restarts, cycles>>

\* lines 329-330: KeyboardInterrupt ends the process; its memory is gone
Interrupt ==
    /\ pc # "stopped"
    /\ pc' = "stopped"
    /\ state' = EmptyDict
    /\ snapshot_by_host' = EmptyDict
    /\ now_iso' = 0
    /\ idx' = 0
    /\ NoLocals
    /\ UNCHANGED <<res, config, files, clock, sent, pings, probes, restarts, cycles>>

\* lines 211-244: the process is started again on the same data directory
\* with config.json as it was; state.json is read back (lines 238-240)
Restart ==
    /\ pc = "stopped"
    /\ restarts < MaxRestarts
    /\ restarts' = restarts + 1
    /\ state' = load_json(state_file, EmptyDict)
    /\ pc' = "loop"
    /\ UNCHANGED <<res, config, now_iso, snapshot_by_host, idx, locals, files,
                   clock, sent, pings, probes, cycles>>

Next ==
    \/ CycleStart
    \/ Probe
    \/ AppendAlert
    \/ Notify
    \/ Record
    \/ OpenStatusTmp
    \/ WriteStatusTmp
    \/ ReplaceStatus
    \/ OpenStateTmp
    \/ WriteStateTmp
    \/ ReplaceState
    \/ Sleep
    \/ Interrupt
    \/ Restart

Spec == Init /\ [][Next]_vars

\* state.json as the process may find it at startup, for the host "a":
\* missing; cut short; the document []; the entry []; an entry whose
\* failures is the string "x"; an entry whose status is the number 5 and
\* whose failures is the string "3"; an entry the program wrote itself.
StoredStateFiles ==
    { None,
      Partial,
      Some(EmptyDict),
      Some(<<"a">> :> EmptyDict),
      Some(<<"a">> :> [status |-> "UP", failures_str |-> <<"x">>]),
      Some(<<"a">> :> [status_num |-> 5, failures_str |-> <<"3">>]),
      Some(<<"a">> :> StateEntry("UP", 0, Some(StartTime - DefaultInterval),
                                 StartTime - DefaultInterval)) }

InitStore == \E file \in StoredStateFiles : Start(file)

\* lines 260-262 raise: the traceback ends the process
Crash ==
    /\ pc = "probe"
    /\ PrevRaises(state, targets[idx].host)
    /\ pc' = "stopped"
    /\ state' = EmptyDict
    /\ snapshot_by_host' = EmptyDict
    /\ now_iso' = 0
    /\ idx' = 0
    /\ NoLocals
    /\ UNCHANGED <<res, config, files, clock, sent, pings, probes, restarts, cycles>>

NextStore ==
    \/ CycleStart
    \/ Probe
    \/ AppendAlert
    \/ Notify
    \/ Record
    \/ OpenStatusTmp
    \/ WriteStatusTmp
    \/ ReplaceStatus
    \/ OpenStateTmp
    \/ WriteStateTmp
    \/ ReplaceState
    \/ Sleep
    \/ Crash

\* The process started once on a data directory that holds a state.json.
SpecStore == InitStore /\ [][NextStore]_vars

\* ---------------------- the functions on their own ----------------------
\* One call of classify_status or of ping, on arguments drawn from bounded
\* sets; the rest of the program stands still.
InitFn ==
    /\ targets = <<[name |-> <<"a">>, host |-> <<"a">>]>>
    /\ fail_threshold = DefaultFailThreshold
    /\ interval = DefaultInterval
    /\ tg_enabled = FALSE /\ tg_token = <<>> /\ tg_chat = <<>>
    /\ tg_cooldown = DefaultCooldown
    /\ status_file = None /\ state_file = None
    /\ status_tmp = None /\ state_tmp = None
    /\ history = <<>> /\ alerts = <<>>
    /\ state = EmptyDict
    /\ now_iso = 0 /\ snapshot_by_host = EmptyDict /\ idx = 0
    /\ prev_status = "UNKNOWN" /\ failures = 0 /\ last_alert_ts = 0
    /\ last_seen = None
    /\ effective_status = "UNKNOWN" /\ current_status = "UNKNOWN"
    /\ clock = StartTime
    /\ sent = <<>> /\ pings = <<>>
    /\ probes = 0 /\ restarts = 0 /\ cycles = 0
    /\ \/ /\ pc = "classify"
          /\ ok \in BOOLEAN
          /\ latency \in {None} \cup {Some(l) : l \in 0 .. MaxLatency}
          /\ degraded_ms \in DegradedLo .. MaxDegraded
          /\ res = None
       \/ /\ pc = "ping"
          /\ res \in {Some(r) : r \in ProcessOutcomes \cup MoreOutcomes}
          /\ ok = FALSE /\ latency = None
          /\ degraded_ms = DefaultDegraded

\* line 265
Classify ==
    /\ pc = "classify"
    /\ current_status' = classify_status(ok, latency, degraded_ms)
    /\ pc' = "classified"
    /\ UNCHANGED <<res, config, state, now_iso, snapshot_by_host, idx,
                   prev_status, failures, last_alert_ts, ok, latency,
                   last_seen, effective_status, files, clock, sent, pings,
                   probes, restarts, cycles>>

\* line 264
Ping ==
    /\ pc = "ping"
    /\ ok' = ping(res[1]).ok
    /\ latency' = ping(res[1]).latency
    /\ pc' = "pinged"
    /\ UNCHANGED <<res, config, state, now_iso, snapshot_by_host, idx,
                   prev_status, failures, last_alert_ts, last_seen,
                   effective_status, current_status, files, clock, sent,
                   pings, probes, restarts, cycles>>

NextFn ==
    \/ Classify
    \/ Ping

SpecFn == InitFn /\ [][NextFn]_vars

\* lines 327-330: the interrupt arrives between two cycles, while the process
\* sleeps or before it reads the time of the next cycle
CleanStop ==
    /\ pc \in {"sleep", "loop"}
    /\ Interrupt

NextClean ==
    \/ CycleStart
    \/ Probe
    \/ AppendAlert
    \/ Notify
    \/ Record
    \/ OpenStatusTmp
    \/ WriteStatusTmp
    \/ ReplaceStatus
    \/ OpenStateTmp
    \/ WriteStateTmp
    \/ ReplaceState
    \/ Sleep
    \/ CleanStop
    \/ Restart

\* The executions in which the process is stopped only after a completed
\* cycle.
SpecClean == Init /\ [][NextClean]_vars

\* ----------------------------- properties -----------------------------
InTarget == pc \in {"alert", "notify", "record"}
HostSet(ts) == { ts[i].host : i \in DOMAIN ts }
Entries(file) == IF file = None THEN {} ELSE { file[1][h] : h \in DOMAIN file[1] }
Last(s) == s[Len(s)]

\* What a written entry may say: DOWN needs failures >= fail_threshold, and
\* a failure count in 1..fail_threshold-1 is written as DEGRADED.
Damped(e) ==
    /\ e.status = "DOWN" => e.failures >= fail_threshold
    /\ (e.failures >= 1 /\ e.failures < fail_threshold) => e.status = "DEGRADED"

\* C1: the effective status written to the snapshot, the history and the
\* state store is DOWN only if the sample of that cycle was unreachable and
\* the failure count after it is >= fail_threshold; an unreachable sample
\* whose count is below fail_threshold is written as DEGRADED, never DOWN.
C1_DownOnlyAtThreshold ==
    /\ [](/\ \A i \in DOMAIN history : Damped(history[i])
          /\ \A e \in Entries(status_file) : Damped(e)
          /\ \A e \in Entries(state_file) : Damped(e))
    /\ [][(pc = "record" /\ pc' # "stopped") =>
            LET h == targets[idx].host
                rec == Last(history')
            IN  /\ Len(history') = Len(history) + 1
                /\ state'[h].status = rec.status
                /\ state'[h].failures = rec.failures
                /\ snapshot_by_host'[h] = rec
                /\ rec.status = "DOWN" => (~ok /\ rec.failures >= fail_threshold)
                /\ (~ok /\ rec.failures < fail_threshold) => rec.status = "DEGRADED"
          ]_vars

\* C1 witness: the state store holds a DOWN host whose history shows the
\* damped failure before it.
C1_Witness ==
    /\ fail_threshold >= 2
    /\ \E e \in Entries(state_file) : e.status = "DOWN"
    /\ \E i \in DOMAIN history :
         history[i].status = "DEGRADED" /\ history[i].failures = 1

\* Unreachable samples of host h at the end of the log, back to its last
\* reachable one.
RECURSIVE TrailingFailures(_, _)
TrailingFailures(log, h) ==
    IF log = <<>> THEN 0
    ELSE LET rest == SubSeq(log, 1, Len(log) - 1)
         IN  IF Last(log).host # h THEN TrailingFailures(rest, h)
             ELSE IF Last(log).ok THEN 0
             ELSE 1 + TrailingFailures(rest, h)

\* C2: from a failure count of 0, the k-th consecutive unreachable sample
\* of a host is reported DEGRADED while k < fail_threshold and DOWN from
\* k = fail_threshold on (a run from the empty state store).
C2_DegradedThenDown ==
    (restarts = 0 /\ InTarget /\ ~ok) =>
        effective_status =
            IF TrailingFailures(pings, targets[idx].host) < fail_threshold
            THEN "DEGRADED" ELSE "DOWN"

\* C2 witness: fail_threshold 3 and three unreachable samples of the one
\* target give DEGRADED, DEGRADED, DOWN.
C2_Witness ==
    /\ restarts = 0 /\ fail_threshold = 3 /\ Len(targets) = 1
    /\ Len(history) = 3
    /\ \A i \in 1..3 : ~pings[i].ok
    /\ history[1].status = "DEGRADED"
    /\ history[2].status = "DEGRADED"
    /\ history[3].status = "DOWN"

\* The sample of the cycle that just ended for host h (the last one, when
\* the target list names the host more than once).
RECURSIVE LastSample(_, _)
LastSample(log, h) ==
    IF Last(log).host = h THEN Last(log)
    ELSE LastSample(SubSeq(log, 1, Len(log) - 1), h)

\* C3: for every target list normalize_targets accepts, the failure count
\* stored after a cycle is 0 if the sample of the cycle was reachable and
\* the count stored before the cycle plus 1 if it was unreachable.
C3_FailuresResetOrIncrement ==
    [][(pc = "state_replace" /\ pc' = "sleep") =>
        \A h \in HostSet(targets) :
            state_file'[1][h].failures =
                IF LastSample(pings, h).ok THEN 0
                ELSE PrevFailures(load_json(state_file, EmptyDict), h) + 1
      ]_vars


C6_NotifyIffDue ==
    [][(tg_enabled /\ tg_token # <<>> /\ tg_chat # <<>>) =>
         IF pc = "notify" /\ pc' # "stopped"
         THEN LET h == targets[idx].host
                  lastAt == PrevLastAlert(state, h)
              IN  /\ effective_status # PrevStatus(state, h)
                  /\ PrevStatus(state, h) # "UNKNOWN"
                  /\ IF clock - lastAt >= tg_cooldown
                     THEN /\ Len(sent') = Len(sent) + 1
                          /\ Last(sent').host = h /\ Last(sent').ts = clock
                     ELSE sent' = sent
                  /\ lastAt = 0 => sent' # sent
         ELSE /\ sent' = sent
              /\ (pc = "alert" /\ pc' = "record") =>
                    ~(/\ effective_status # PrevStatus(state, targets[idx].host)
                      /\ PrevStatus(state, targets[idx].host) # "UNKNOWN")
      ]_vars

\* C6 witness: two notifications for one host exactly one cooldown apart.
C6_Witness ==
    /\ restarts = 0 /\ pc = "sleep"
    /\ Len(sent) = 2 /\ sent[1].host = sent[2].host
    /\ sent[2].ts - sent[1].ts = tg_cooldown

\* C7: in every execution, interrupts and restarts included, two
\* notifications for the same host are at least tg_cooldown apart.
C7_DispatchesCooldownApart ==
    \A i, j \in DOMAIN sent :
        (i < j /\ sent[i].host = sent[j].host) =>
            sent[j].ts - sent[i].ts >= tg_cooldown

\* Time of the last notification sent for host h, 0 if there is none.
RECURSIVE LastSentTs(_, _)
LastSentTs(log, h) ==
    IF log = <<>> THEN 0
    ELSE IF Last(log).host = h THEN Last(log).ts
    ELSE LastSentTs(SubSeq(log, 1, Len(log) - 1), h)

\* C8: a host's last_alert_ts changes only when a notification is
\* dispatched for it, and then to the dispatch time; otherwise it is
\* written back unchanged.  So it always is the time of the host's last
\* dispatch (0 before the first), in memory and in the state file, and a
\* stored value is never a time at which nothing was sent.
C8_LastAlertIsLastDispatch ==
    /\ state_file # None =>
          \A h \in DOMAIN state_file[1] :
              \/ state_file[1][h].last_alert_ts = 0
              \/ \E i \in DOMAIN sent :
                    sent[i].host = h /\ sent[i].ts = state_file[1][h].last_alert_ts
    /\ (restarts = 0 /\ pc # "stopped") =>
          /\ \A h \in DOMAIN state :
                IF pc = "record" /\ targets[idx].host = h
                THEN last_alert_ts = LastSentTs(sent, h)
                ELSE state[h].last_alert_ts = LastSentTs(sent, h)
          /\ pc = "sleep" => state_file = Some(state)

\* C8 witness: after a dispatch, a later transition was suppressed by the
\* cooldown and the state file still holds the time of the dispatch.
C8_Witness ==
    /\ restarts = 0 /\ pc = "sleep" /\ cycles = 3
    /\ Len(sent) = 1 /\ Len(alerts) = 2
    /\ alerts[2].ts > sent[1].ts
    /\ state_file[1][sent[1].host].last_alert_ts = sent[1].ts

\* The last history record of host h.
RECURSIVE LastRecord(_, _)
LastRecord(log, h) ==
    IF Last(log).host = h THEN Last(log)
    ELSE LastRecord(SubSeq(log, 1, Len(log) - 1), h)

\* C9: the snapshot file holds exactly one entry per distinct configured
\* host, keyed by host, all of one cycle; once a cycle has written it, each
\* entry is the record computed for the host in that cycle.
C9_SnapshotIsLastCycle ==
    /\ status_file # None =>
          /\ DOMAIN status_file[1] = HostSet(targets)
          /\ \A h \in DOMAIN status_file[1] : status_file[1][h].host = h
          /\ \A g, h \in DOMAIN status_file[1] :
                status_file[1][g].updated_at = status_file[1][h].updated_at
    /\ pc \in {"state_tmp", "state_dump", "state_replace", "sleep"} =>
          /\ status_file # None
          /\ \A h \in HostSet(targets) :
                /\ status_file[1][h] = LastRecord(history, h)
                /\ status_file[1][h].updated_at = now_iso

\* C9 witness: the second cycle replaced the entry of the first.
C9_Witness ==
    /\ restarts = 0 /\ pc = "sleep" /\ cycles = 2 /\ Len(history) = 2
    /\ status_file[1][history[2].host] = history[2]
    /\ history[2].status # history[1].status

\* C10: after N completed cycles over K distinct configured hosts, from an
\* empty history stream, the stream holds exactly N*K records, and no
\* record once appended is changed or removed.
C10_HistoryCount ==
    /\ []((restarts = 0 /\ pc = "sleep") =>
             Len(history) = cycles * Cardinality(HostSet(targets)))
    /\ [][/\ Len(history') >= Len(history)
          /\ SubSeq(history', 1, Len(history)) = history]_vars

\* C11: a process stopped after a completed cycle and started again takes
\* up the persisted status, failure count and last-alert time: across such
\* restarts the state in memory between cycles is the state file, the
\* failure count and the damped status follow the whole sequence of samples
\* as in a run that never stopped, the prior status is the host's last
\* recorded one (never UNKNOWN once the host has an entry), and the
\* cooldown counts from the host's last dispatch.
C11_RestartContinues ==
    /\ pc \in {"sleep", "loop"} => state = load_json(state_file, EmptyDict)
    /\ InTarget =>
          LET h == targets[idx].host
              k == TrailingFailures(pings, h)
          IN  /\ failures = k
              /\ ~ok => effective_status =
                           IF k < fail_threshold THEN "DEGRADED" ELSE "DOWN"
              /\ last_alert_ts = LastSentTs(sent, h)
              /\ (\E i \in DOMAIN history : history[i].host = h) =>
                    /\ pc # "record" => prev_status = LastRecord(history, h).status
                    /\ prev_status # "UNKNOWN"

\* C11 witness: one failure before the restart and one after it reach a
\* threshold of 2.
C11_Witness ==
    /\ restarts = 1 /\ pc = "record" /\ fail_threshold = 2
    /\ Len(pings) = 2 /\ Len(targets) = 1
    /\ failures = 2 /\ effective_status = "DOWN" /\ prev_status = "DEGRADED"

Canonical == <<status_file, state_file>>

\* C12: at every point, whatever step an interrupt falls on, status.json
\* and state.json each are missing or hold a complete document; they change
\* only at the replace step of a write, to the whole data of that write;
\* the step that ends the process, and every step of a write before its
\* replace, leave both as they were.
C12_CanonicalFilesComplete ==
    /\ [](/\ status_file # None => IsComplete(status_file)
          /\ state_file # None => IsComplete(state_file))
    /\ [][ /\ (status_file' # status_file) =>
                (pc = "status_replace" /\ status_file' = Some(snapshot_by_host))
           /\ (state_file' # state_file) =>
                (pc = "state_replace" /\ state_file' = Some(state))
           /\ (pc' = "stopped") => (Canonical' = Canonical) ]_vars

\* C12 witness: the process was interrupted inside the second write of
\* status.json, and status.json still holds the first cycle's snapshot.
C12_Witness ==
    /\ pc = "stopped" /\ restarts = 0 /\ cycles = 1
    /\ status_tmp = Partial
    /\ IsComplete(status_file)
    /\ Len(history) = 2 * Len(targets)
    /\ \A i \in DOMAIN targets :
         status_file[1][targets[i].host].updated_at # Last(history).updated_at

\* state.json gives no usable prior state for the host: it is missing, does
\* not parse, or the host's entry lacks a member of the type the program
\* writes.
Affected(file, h) ==
    \/ ~IsComplete(file)
    \/ h \notin DOMAIN file[1]
    \/ {"status", "failures", "last_alert_ts"} \ DOMAIN file[1][h] # {}

\* C13: with state.json missing or corrupt at startup the process is not
\* ended by the load, and in the first cycle each affected target is
\* processed from prior status UNKNOWN and failure count 0.
C13_CorruptStoreIsNoState ==
    /\ pc # "stopped"
    /\ (/\ cycles = 0 /\ InTarget
        /\ Affected(state_file, targets[idx].host)
        /\ \A j \in 1 .. (idx - 1) : targets[j].host # targets[idx].host)
        => /\ prev_status = "UNKNOWN"
           /\ failures = NextFailures(ok, 0)

\* C14: the normalized target list holds no two targets with the same
\* host, and within one cycle no host is probed twice.
C14_HostsUnique ==
    /\ \A i, j \in DOMAIN targets :
          i # j => targets[i].host # targets[j].host
    /\ InTarget =>
          \A j \in 1 .. (idx - 1) : targets[j].host # targets[idx].host

\* C15: classify_status gives DOWN for an unreachable sample, UP for a
\* reachable one without latency, DEGRADED for a reachable one whose latency
\* is at least the threshold and UP for one below it, and nothing else.
C15_ClassifyTable ==
    pc = "classified" =>
      /\ current_status \in {"UP", "DEGRADED", "DOWN"}
      /\ ~ok => current_status = "DOWN"
      /\ (ok /\ latency = None) => current_status = "UP"
      /\ (ok /\ latency # None) =>
            /\ latency[1] >= degraded_ms => current_status = "DEGRADED"
            /\ latency[1] < degraded_ms => current_status = "UP"

\* C15 witness: a reachable sample with latency equal to the threshold is
\* DEGRADED.
C15_Witness ==
    /\ pc = "classified" /\ ok
    /\ latency = Some(degraded_ms)
    /\ current_status = "DEGRADED"

\* C17: every run of the ping command that is a failure (an exit status
\* other than 0, a timeout, a missing executable, another exception) is
\* returned by ping as not reachable and without latency.
C17_FailureHasNoLatency ==
    (pc = "pinged" /\ (res[1].kind # "exit" \/ res[1].returncode # 0))
      => (~ok /\ latency = None)

\* Some sample of the host was reachable.
EverReachable(log, h) == \E i \in DOMAIN log : log[i].host = h /\ log[i].ok

\* C16: the last_seen stored for a host after a cycle is the cycle's
\* timestamp if the sample of the cycle was reachable and otherwise the
\* value stored before the cycle; a host that never had a reachable sample
\* has no last_seen in the state store, the snapshot or the history.
C16_LastSeenFrame ==
    /\ [][(pc = "state_replace" /\ pc' = "sleep") =>
            \A h \in HostSet(targets) :
                state_file'[1][h].last_seen =
                    IF LastSample(pings, h).ok THEN Some(now_iso)
                    ELSE PrevLastSeen(load_json(state_file, EmptyDict), h)
          ]_vars
    /\ [](\A h \in HostSet(targets) :
            ~EverReachable(pings, h) =>
              /\ PrevLastSeen(state, h) = None
              /\ PrevLastSeen(load_json(state_file, EmptyDict), h) = None
              /\ PrevLastSeen(load_json(status_file, EmptyDict), h) = None
              /\ \A i \in DOMAIN history :
                    history[i].host = h => history[i].last_seen = None)

\* The coupling of the status and the failure count of one written entry.
Coupled(e) ==
    /\ e.status \in {"UP", "DEGRADED", "DOWN"}
    /\ e.status = "UP" => e.failures = 0
    /\ e.failures >= 1 => e.status \in {"DEGRADED", "DOWN"}
    /\ e.status = "DOWN" <=> e.failures >= fail_threshold

\* C18: in every entry of the state store (in memory and in state.json),
\* and in the snapshot and history records written with it, status UP goes
\* with failures = 0, failures >= 1 with DEGRADED or DOWN, DOWN with exactly
\* failures >= fail_threshold, and the status is never UNKNOWN.
C18_StatusFailuresCoupled ==
    /\ \A h \in DOMAIN state : Coupled(state[h])
    /\ \A e \in Entries(state_file) : Coupled(e)
    /\ \A e \in Entries(status_file) : Coupled(e)
    /\ \A i \in DOMAIN history : Coupled(history[i])

\* C18 witness: after a cycle, state.json holds a host as DOWN with a
\* failure count that has just reached a threshold of 2 or more.
C18_Witness ==
    /\ pc = "sleep" /\ fail_threshold >= 2
    /\ \E e \in Entries(state_file) :
         e.status = "DOWN" /\ e.failures = fail_threshold

\* The process has written the state of a cycle and has not begun the next
\* one: it sleeps, or it has slept and not yet read the time (a process
\* that has just been started has no cycle time in memory).
BetweenCycles == pc = "sleep" \/ (pc = "loop" /\ now_iso # 0)

\* C19: between two cycles, for every configured host, status.json and
\* state.json hold the same status, failure count and last_seen, and so does
\* the host's last history record.
C19_FilesAgreeBetweenCycles ==
    BetweenCycles =>
      \A h \in HostSet(targets) :
        LET snap == status_file[1][h]
            entry == state_file[1][h]
            rec == LastRecord(history, h)
        IN  /\ snap.status = entry.status /\ rec.status = entry.status
            /\ snap.failures = entry.failures /\ rec.failures = entry.failures
            /\ snap.last_seen = entry.last_seen /\ rec.last_seen = entry.last_seen

\* C19 witness: a host seen in the first cycle and unreachable in a cycle
\* that the restarted process completed.
C19_Witness ==
    /\ pc = "loop" /\ now_iso > StartTime /\ restarts = 1
    /\ \E h \in HostSet(targets) :
         /\ state_file[1][h].failures = 1
         /\ state_file[1][h].last_seen = Some(StartTime)
         /\ status_file[1][h].last_seen = Some(StartTime)

\* The alert records of host h, in the order they were appended.
RECURSIVE AlertsOf(_, _)
AlertsOf(log, h) ==
    IF log = <<>> THEN <<>>
    ELSE IF Head(log).host = h THEN <<Head(log)>> \o AlertsOf(Tail(log), h)
    ELSE AlertsOf(Tail(log), h)

\* C20: a notification leaves only while the cycle of its transition is
\* processing the host, and reports the alert record just appended; and a
\* transition, notified or suppressed, is recorded once: the next alert
\* record of the host starts from the status the last one ended in, so a
\* host that keeps its status gets no further record and no dispatch.
C20_NotifiedOnlyAtTransition ==
    /\ [][sent' # sent =>
            /\ pc = "notify"
            /\ effective_status # prev_status
            /\ Last(alerts).ts = now_iso
            /\ Last(alerts).host = targets[idx].host
            /\ Last(sent').host = Last(alerts).host
            /\ Last(sent').from = Last(alerts).from
            /\ Last(sent').to = Last(alerts).to
          ]_vars
    /\ [](\A h \in HostSet(targets) :
            LET a == AlertsOf(alerts, h)
            IN  \A i \in 1 .. (Len(a) - 1) : a[i + 1].from = a[i].to)
====
